---------------------------- MODULE Spec2Model ----------------------------
(***************************************************************************)
(* Model of the byte codec (toBigEndian, fromBigEndian,                    *)
(* toCompactBigEndian, bytesRequired) and of the sequence rewriters        *)
(* (iterateReplacing, iterateReplacingWindow) of libdevcore/CommonData.h.  *)
(*                                                                         *)
(* One behaviour is one call: Init draws the operation and its arguments,  *)
(* the actions run the body of the called function.  The codec functions   *)
(* are straight-line loops over local values and are run by one action     *)
(* each; the rewriters call the caller's rule once per loop iteration, so  *)
(* every loop iteration is one action.                                     *)
(***************************************************************************)
EXTENDS Integers, Sequences, FiniteSets

VARIABLES
    op,              \* the function that was called
    pc,              \* position inside the call
    T,               \* integer type of the codec call: bit width, 0 for bigint
    _val,            \* toBigEndian / toCompactBigEndian / bytesRequired: the value
    _min,            \* toCompactBigEndian: minimal length
    o_out,           \* toBigEndian: the caller's buffer
    _bytes,          \* fromBigEndian: the byte stream
    ret,             \* the returned value: a byte sequence or an integer
    N,               \* window size (sizeof...(I)); 1 for iterateReplacing
    _f,              \* the caller's rule
    _vector,         \* the caller's sequence
    useModified,     \* local of both rewriters
    modifiedVector,  \* local of both rewriters, the staging buffer
    i,               \* loop index of both rewriters (0-based as in the source)
    calls,           \* history: the invocations of _f made so far
    hist,            \* history: arguments as given, moves and assignments made
    side             \* a second call, of iterateReplacingWindow, run side by
                     \* side with a call of iterateReplacing on a copy of its
                     \* arguments: its window size, position, copy of the
                     \* sequence, locals and histories

vars == <<op, pc, T, _val, _min, o_out, _bytes, ret, N, _f, _vector,
          useModified, modifiedVector, i, calls, hist, side>>

codecVars == <<T, _val, _min, o_out, _bytes, ret>>
rewriteVars == <<N, _f, _vector, useModified, modifiedVector, i, calls>>

---------------------------------------------------------------------------
(* Bounds of the model *)

\* widest value given to the codec and longest stream decoded as bigint,
\* in bytes
MaxBytes == 2
\* longest buffer given to toBigEndian, longest stream decoded to a
\* fixed-width type, largest _min
MaxBuf == 3
\* longest sequence given to a rewriter
MaxLen == 5
\* number of distinct element values
NumElems == 2
\* longest replacement a rule returns
MaxRepl == 2
\* largest window size
MaxN == 2
\* longest sequence in the runs checked for termination and in the
\* side-by-side runs
MaxScan == 4

---------------------------------------------------------------------------
(* Integer types and byte sequences *)

\* bigint is written as width 0
bigint == 0

\* the unsigned fixed-width types of the model: uint8_t and uint16_t
FixedWidths == {8, 16}

RECURSIVE Pow2(_)
Pow2(n) == IF n = 0 THEN 1 ELSE 2 * Pow2(n - 1)

\* (T)x : conversion of a non-negative value to type t
Cast(t, x) == IF t = bigint THEN x ELSE x % Pow2(t)

\* byte values the inputs are drawn from
ByteSamples == {0, 1, 128, 255}

\* contents a caller's buffer may hold before the call
BufFill == {0, 170}

SeqsUpTo(S, n) == UNION {[1..k -> S] : k \in 0..n}

\* the value a byte sequence denotes in base 256, most significant first
RECURSIVE Exact(_)
Exact(bs) == IF bs = <<>> THEN 0
             ELSE bs[Len(bs)] + 256 * Exact(SubSeq(bs, 1, Len(bs) - 1))

\* values of at most MaxBytes bytes
Values == {Exact(bs) : bs \in SeqsUpTo(ByteSamples, MaxBytes)}

Representable(t, v) == t = bigint \/ v < Pow2(t)

---------------------------------------------------------------------------
(* The codec functions, computed as the source computes them *)

\* toBigEndian without the shift _val >>= 8
RECURSIVE ToBigEndianLoopNoShift(_, _, _, _)
ToBigEndianLoopNoShift(t, val, out, k) ==
    IF k = 0 THEN out
    ELSE LET v == Cast(t, val % 256)
         IN ToBigEndianLoopNoShift(t, val, [out EXCEPT ![k] = v % 256], k - 1)

\* toBigEndian stopping as soon as nothing of the value is left
RECURSIVE ToBigEndianLoopStopAtZero(_, _, _, _)
ToBigEndianLoopStopAtZero(t, val, out, k) ==
    IF k = 0 \/ val = 0 THEN out
    ELSE LET v == Cast(t, val % 256)
         IN ToBigEndianLoopStopAtZero(t, Cast(t, val \div 256),
                                      [out EXCEPT ![k] = v % 256], k - 1)

\* the loop of toBigEndian from index k (= the source's i) down to 0
RECURSIVE ToBigEndianLoop(_, _, _, _)
ToBigEndianLoop(t, val, out, k) ==
    IF k = 0 THEN out
    ELSE LET v == Cast(t, val % 256)
         IN ToBigEndianLoop(t, Cast(t, val \div 256),
                            [out EXCEPT ![k] = v % 256], k - 1)

toBigEndian(t, val, out) == ToBigEndianLoop(t, val, out, Len(out))

\* fromBigEndian reading the bytes last to first
RECURSIVE fromBigEndianLoopReversed(_, _, _, _)
fromBigEndianLoopReversed(t, bs, k, acc) ==
    IF k > Len(bs) THEN acc
    ELSE fromBigEndianLoopReversed(t, bs, k + 1,
                                   Cast(t, acc * 256 + bs[Len(bs) + 1 - k]))

RECURSIVE fromBigEndianLoop(_, _, _, _)
fromBigEndianLoop(t, bs, k, acc) ==
    IF k > Len(bs) THEN acc
    ELSE fromBigEndianLoop(t, bs, k + 1, Cast(t, acc * 256 + bs[k]))

fromBigEndian(t, bs) == fromBigEndianLoop(t, bs, 1, Cast(t, 0))

\* for (; _i != 0; ++i, _i >>= 8) {}
RECURSIVE bytesRequired(_, _)
bytesRequired(t, v) ==
    IF v = 0 THEN 0 ELSE 1 + bytesRequired(t, Cast(t, v \div 256))

Max(a, b) == IF a >= b THEN a ELSE b

\* the counting loop with the condition v > 0xff
RECURSIVE CompactCountShort(_, _)
CompactCountShort(t, v) ==
    IF v < 256 THEN 0 ELSE 1 + CompactCountShort(t, Cast(t, v \div 256))

\* int i = 0; for (T v = _val; v; ++i, v >>= 8) {}
RECURSIVE CompactCount(_, _)
CompactCount(t, v) ==
    IF v = 0 THEN 0 ELSE 1 + CompactCount(t, Cast(t, v \div 256))

Min(a, b) == IF a <= b THEN a ELSE b

\* toCompactBigEndian with std::min in place of std::max
toCompactBigEndianMinLength(t, val, min) ==
    toBigEndian(t, val, [k \in 1..Min(min, CompactCount(t, val)) |-> 0])

\* bytes ret(std::max<unsigned>(_min, i), 0); toBigEndian(_val, ret);
toCompactBigEndian(t, val, min) ==
    toBigEndian(t, val, [k \in 1..Max(min, CompactCount(t, val)) |-> 0])

---------------------------------------------------------------------------
(* Elements, rules and the rule's results *)

\* element values of the caller's sequence
Elem == 1..NumElems

\* what is left at an index whose element was moved out
Hollow == 0

nullopt == [some |-> FALSE]
Some(r) == [some |-> TRUE, value |-> r]

RECURSIVE Sum(_)
Sum(w) == IF w = <<>> THEN 0 ELSE Head(w) + Sum(Tail(w))

\* A rule is a pure function of the elements it is handed.  The rules of the
\* model fire on the windows whose element sum falls into one of the chosen
\* residue classes, and answer with a sequence of fresh elements derived from
\* the window's first element, of a length that depends on that element.
Rules == [fires : SUBSET Elem, base : 0..MaxRepl]

Replacement(e, len) == [j \in 1..len |-> 10 * e + (j - 1)]

Apply(f, w) ==
    IF (((Sum(w) - 1) % NumElems) + 1) \in f.fires
    THEN Some(Replacement(w[1], (f.base + w[1]) % (MaxRepl + 1)))
    ELSE nullopt

\* _vector[i + I]... : the window of n elements at 0-based index k
Window(vec, k, n) == SubSeq(vec, k + 1, k + n)

\* std::move(first, last, back_inserter(dst)) of the 0-based range [0, k):
\* what the source range holds afterwards
MoveOut(vec, k) == [j \in 1..Len(vec) |-> IF j <= k THEN Hollow ELSE vec[j]]

\* per-index move counts after moving the 0-based range [a, b)
CountMoves(moved, a, b) ==
    [j \in 1..Len(moved) |-> IF a < j /\ j <= b THEN moved[j] + 1 ELSE moved[j]]

---------------------------------------------------------------------------
(* Initial states: one call, its arguments drawn from the bounded sets *)

NoHist == [vector0 |-> <<>>, out0 |-> <<>>, assigned |-> 0, staged |-> 0,
           moved |-> <<>>]

CodecIdle ==
    /\ T = bigint /\ _val = 0 /\ _min = 0 /\ o_out = <<>> /\ _bytes = <<>>
    /\ ret = 0

\* no second call is running
NoSide == [pc |-> "idle", N |-> 1, vector |-> <<>>, useModified |-> FALSE,
           modifiedVector |-> <<>>, i |-> 0, calls |-> <<>>, hist |-> NoHist]

RewriteIdle ==
    /\ N = 1 /\ _f = [fires |-> {}, base |-> 0] /\ _vector = <<>>
    /\ useModified = FALSE /\ modifiedVector = <<>> /\ i = 0 /\ calls = <<>>

InitToBigEndian ==
    /\ op = "toBigEndian" /\ pc = "call"
    /\ T \in FixedWidths \cup {bigint}
    /\ _val \in {v \in Values : Representable(T, v)}
    /\ o_out \in SeqsUpTo(BufFill, MaxBuf)
    /\ _min = 0 /\ _bytes = <<>> /\ ret = 0
    /\ hist = [NoHist EXCEPT !.out0 = o_out]
    /\ RewriteIdle
    /\ side = NoSide

InitFromBigEndian ==
    /\ op = "fromBigEndian" /\ pc = "call"
    /\ T \in FixedWidths \cup {bigint}
    /\ _bytes \in SeqsUpTo(ByteSamples, IF T = bigint THEN MaxBytes ELSE MaxBuf)
    /\ _val = 0 /\ _min = 0 /\ o_out = <<>> /\ ret = 0
    /\ hist = NoHist
    /\ RewriteIdle
    /\ side = NoSide

InitToCompactBigEndian ==
    /\ op = "toCompactBigEndian" /\ pc = "call"
    /\ T \in FixedWidths \cup {bigint}
    /\ _val \in {v \in Values : Representable(T, v)}
    /\ _min \in 0..MaxBuf
    /\ o_out = <<>> /\ _bytes = <<>> /\ ret = 0
    /\ hist = NoHist
    /\ RewriteIdle
    /\ side = NoSide

InitBytesRequired ==
    /\ op = "bytesRequired" /\ pc = "call"
    /\ T \in FixedWidths \cup {bigint}
    /\ _val \in {v \in Values : Representable(T, v)}
    /\ _min = 0 /\ o_out = <<>> /\ _bytes = <<>> /\ ret = 0
    /\ hist = NoHist
    /\ RewriteIdle
    /\ side = NoSide

\* entry of a rewriter with a sequence of at most maxLen elements
RewriteEntry(maxLen) ==
    /\ \/ op = "iterateReplacing" /\ N = 1
       \/ op = "iterateReplacingWindow" /\ N \in 1..MaxN
    /\ pc = "loop"
    /\ _f \in Rules
    /\ _vector \in SeqsUpTo(Elem, maxLen)
    /\ useModified = FALSE /\ modifiedVector = <<>> /\ i = 0 /\ calls = <<>>
    /\ hist = [NoHist EXCEPT !.vector0 = _vector,
                             !.moved = [j \in 1..Len(_vector) |-> 0]]
    /\ CodecIdle

InitRewrite == RewriteEntry(MaxLen) /\ side = NoSide

Init ==
    \/ InitToBigEndian
    \/ InitFromBigEndian
    \/ InitToCompactBigEndian
    \/ InitBytesRequired
    \/ InitRewrite

---------------------------------------------------------------------------
(* The codec calls *)

ToBigEndianCall ==
    /\ op = "toBigEndian" /\ pc = "call"
    /\ o_out' = toBigEndian(T, _val, o_out)
    /\ pc' = "done"
    /\ UNCHANGED <<op, T, _val, _min, _bytes, ret, hist>>
    /\ UNCHANGED rewriteVars
    /\ UNCHANGED side

FromBigEndianCall ==
    /\ op = "fromBigEndian" /\ pc = "call"
    /\ ret' = fromBigEndian(T, _bytes)
    /\ pc' = "done"
    /\ UNCHANGED <<op, T, _val, _min, o_out, _bytes, hist>>
    /\ UNCHANGED rewriteVars
    /\ UNCHANGED side

ToCompactBigEndianCall ==
    /\ op = "toCompactBigEndian" /\ pc = "call"
    /\ ret' = toCompactBigEndian(T, _val, _min)
    /\ pc' = "done"
    /\ UNCHANGED <<op, T, _val, _min, o_out, _bytes, hist>>
    /\ UNCHANGED rewriteVars
    /\ UNCHANGED side

BytesRequiredCall ==
    /\ op = "bytesRequired" /\ pc = "call"
    /\ ret' = bytesRequired(T, _val)
    /\ pc' = "done"
    /\ UNCHANGED <<op, T, _val, _min, o_out, _bytes, hist>>
    /\ UNCHANGED rewriteVars
    /\ UNCHANGED side

-------------------------------------------------------------------------------------------------------------------------------------------------
(* The rewriters: one action per loop iteration *)

\* the locals and the caller's sequence, as one value
Locals == [vector |-> _vector, useModified |-> useModified,
           modifiedVector |-> modifiedVector, i |-> i, hist |-> hist]

SetLocals(s) ==
    /\ _vector' = s.vector
    /\ useModified' = s.useModified
    /\ modifiedVector' = s.modifiedVector
    /\ i' = s.i
    /\ hist' = s.hist

\* Stage moving the elements scanned so far on every match, not only on the
\* first
StageCatchUpAlways(s, r) ==
    [s EXCEPT !.modifiedVector = (@ \o SubSeq(s.vector, 1, s.i)) \o r,
              !.vector = MoveOut(@, s.i),
              !.useModified = TRUE,
              !.hist.moved = CountMoves(@, 0, s.i),
              !.hist.staged = @ + s.i + Len(r)]

\* Stage without the one-time move of the elements scanned so far
StageNoCatchUp(s, r) ==
    [s EXCEPT !.modifiedVector = @ \o r,
              !.useModified = TRUE,
              !.hist.staged = @ + Len(r)]

\* if (!useModified) { std::move(begin, begin + i, back_inserter(modifiedVector));
\*                     useModified = true; }
\* modifiedVector += std::move(*r);
Stage(s, r) ==
    IF ~s.useModified
    THEN [s EXCEPT !.modifiedVector = (@ \o SubSeq(s.vector, 1, s.i)) \o r,
                   !.vector = MoveOut(@, s.i),
                   !.useModified = TRUE,
                   !.hist.moved = CountMoves(@, 0, s.i),
                   !.hist.staged = @ + s.i + Len(r)]
    ELSE [s EXCEPT !.modifiedVector = @ \o r,
                   !.hist.staged = @ + Len(r)]

\* the index after a match without i += sizeof...(I) - 1
AfterMatchNoSkip(k, n) == k + 1

\* the index after a match without the loop's ++i
AfterMatchNoIncrement(k, n) == k + (n - 1)

\* the index after a match at k: i += sizeof...(I) - 1, then the loop's ++i
AfterMatch(k, n) == (k + (n - 1)) + 1

\* modifiedVector.emplace_back(std::move(_vector[i]));
EmplaceMoved(s) ==
    [s EXCEPT !.modifiedVector = Append(@, s.vector[s.i + 1]),
              !.vector[s.i + 1] = Hollow,
              !.hist.moved = CountMoves(@, s.i, s.i + 1),
              !.hist.staged = @ + 1]

\* the no-match branch as a plain else, without the test of useModified
OnNoMatchUnconditional(s) == [EmplaceMoved(s) EXCEPT !.i = @ + 1]

\* else if (useModified) modifiedVector.emplace_back(std::move(_vector[i]));
\* followed by the loop's ++i
OnNoMatch(s) ==
    [(IF s.useModified THEN EmplaceMoved(s) ELSE s) EXCEPT !.i = @ + 1]

\* the tail loop with an empty body
TailBodySkip(s) == [s EXCEPT !.i = @ + 1]

\* the body of the tail loop and its ++i
TailBody(s) == [EmplaceMoved(s) EXCEPT !.i = @ + 1]

\* if (useModified) _vector = std::move(modifiedVector);
Finish(s) ==
    IF s.useModified
    THEN [s EXCEPT !.vector = s.modifiedVector,
                   !.modifiedVector = <<>>,
                   !.hist.assigned = @ + 1]
    ELSE s

\* the body of both for loops at index i, on a window of n elements
LoopBody(n) ==
    LET w == Window(_vector, i, n)
        r == Apply(_f, w)
    IN /\ calls' = Append(calls, [pos |-> i, args |-> w, fired |-> r.some])
       /\ SetLocals(IF r.some
                    THEN [Stage(Locals, r.value) EXCEPT !.i = AfterMatch(@, n)]
                    ELSE OnNoMatch(Locals))

IterateReplacingStep ==
    /\ op = "iterateReplacing" /\ pc = "loop"
    /\ i < Len(_vector)
    /\ LoopBody(1)
    /\ UNCHANGED <<op, pc, N, _f>>
    /\ UNCHANGED codecVars
    /\ UNCHANGED side

IterateReplacingEnd ==
    /\ op = "iterateReplacing" /\ pc = "loop"
    /\ ~(i < Len(_vector))
    /\ SetLocals(Finish(Locals))
    /\ pc' = "done"
    /\ UNCHANGED <<op, N, _f, calls>>
    /\ UNCHANGED codecVars
    /\ UNCHANGED side

\* the loop condition i + sizeof...(I) <= _vector.size() with <
WindowFitsStrict(k, n, len) == k + n < len

\* the loop condition i + sizeof...(I) <= _vector.size()
WindowFits(k, n, len) == k + n <= len

WindowStep ==
    /\ op = "iterateReplacingWindow" /\ pc = "loop"
    /\ WindowFits(i, N, Len(_vector))
    /\ LoopBody(N)
    /\ UNCHANGED <<op, pc, N, _f>>
    /\ UNCHANGED codecVars
    /\ UNCHANGED side

WindowLoopExit ==
    /\ op = "iterateReplacingWindow" /\ pc = "loop"
    /\ ~WindowFits(i, N, Len(_vector))
    /\ pc' = IF useModified THEN "tail" ELSE "done"
    /\ UNCHANGED <<op, N, _f, _vector, useModified, modifiedVector, i, calls, hist>>
    /\ UNCHANGED codecVars
    /\ UNCHANGED side

WindowTailStep ==
    /\ op = "iterateReplacingWindow" /\ pc = "tail"
    /\ i < Len(_vector)
    /\ SetLocals(TailBody(Locals))
    /\ UNCHANGED <<op, pc, N, _f, calls>>
    /\ UNCHANGED codecVars
    /\ UNCHANGED side

WindowAssign ==
    /\ op = "iterateReplacingWindow" /\ pc = "tail"
    /\ ~(i < Len(_vector))
    /\ SetLocals(Finish(Locals))
    /\ pc' = "done"
    /\ UNCHANGED <<op, N, _f, calls>>
    /\ UNCHANGED codecVars
    /\ UNCHANGED side

Next ==
    \/ ToBigEndianCall
    \/ FromBigEndianCall
    \/ ToCompactBigEndianCall
    \/ BytesRequiredCall
    \/ IterateReplacingStep
    \/ IterateReplacingEnd
    \/ WindowStep
    \/ WindowLoopExit
    \/ WindowTailStep
    \/ WindowAssign

Spec == Init /\ [][Next]_vars

\* The rewriters alone, for the properties of their runs to completion.
\* Both are synchronous and have no suspension points: a call that has
\* started keeps executing until it returns.
InitScan == RewriteEntry(MaxScan) /\ side = NoSide

ScanNext ==
    \/ IterateReplacingStep
    \/ IterateReplacingEnd
    \/ WindowStep
    \/ WindowLoopExit
    \/ WindowTailStep
    \/ WindowAssign

ScanSpec == InitScan /\ [][ScanNext]_vars /\ WF_vars(ScanNext)

---------------------------------------------------------------------------
(* iterateReplacing and iterateReplacingWindow<N> side by side: the same    *)
(* rule, each call on its own copy of the same sequence.  The calls do not  *)
(* share state, so any schedule shows their runs; the one chosen alternates *)
(* their loop iterations, iterateReplacing first, and lets                  *)
(* iterateReplacingWindow finish after iterateReplacing has returned.       *)

mainVars == <<op, pc, T, _val, _min, o_out, _bytes, ret, N, _f, _vector,
              useModified, modifiedVector, i, calls, hist>>

\* entry of iterateReplacingWindow<n> on a copy of the arguments
SideEntry(n) ==
    [pc |-> "loop", N |-> n, vector |-> _vector, useModified |-> FALSE,
     modifiedVector |-> <<>>, i |-> 0, calls |-> <<>>, hist |-> hist]

InitPair ==
    /\ RewriteEntry(MaxScan)
    /\ op = "iterateReplacing"
    /\ side \in {SideEntry(n) : n \in 1..MaxN}

SideCanScan ==
    side.pc = "loop" /\ WindowFits(side.i, side.N, Len(side.vector))

PairElementsStep ==
    /\ side.pc # "idle"
    /\ ~(SideCanScan /\ Len(calls) > Len(side.calls))
    /\ IterateReplacingStep

PairElementsEnd ==
    /\ side.pc # "idle"
    /\ ~SideCanScan
    /\ IterateReplacingEnd

\* the for loop of detail::iterateReplacingWindow, on the second call
SideWindowStep ==
    /\ SideCanScan
    /\ Len(side.calls) < Len(calls)
    /\ LET w == Window(side.vector, side.i, side.N)
           r == Apply(_f, w)
           t == IF r.some
                THEN [Stage(side, r.value) EXCEPT !.i = AfterMatch(@, side.N)]
                ELSE OnNoMatch(side)
       IN side' = [t EXCEPT !.calls =
                       Append(@, [pos |-> side.i, args |-> w, fired |-> r.some])]
    /\ UNCHANGED mainVars

SideWindowLoopExit ==
    /\ side.pc = "loop" /\ ~SideCanScan
    /\ pc = "done"
    /\ side' = [side EXCEPT !.pc = IF side.useModified THEN "tail" ELSE "done"]
    /\ UNCHANGED mainVars

SideWindowTailStep ==
    /\ side.pc = "tail"
    /\ side.i < Len(side.vector)
    /\ side' = TailBody(side)
    /\ UNCHANGED mainVars

SideWindowAssign ==
    /\ side.pc = "tail"
    /\ ~(side.i < Len(side.vector))
    /\ side' = [Finish(side) EXCEPT !.pc = "done"]
    /\ UNCHANGED mainVars

PairNext ==
    \/ PairElementsStep
    \/ PairElementsEnd
    \/ SideWindowStep
    \/ SideWindowLoopExit
    \/ SideWindowTailStep
    \/ SideWindowAssign

PairSpec == InitPair /\ [][PairNext]_vars

---------------------------------------------------------------------------
(* Reference definitions used by the properties *)

Done(o) == op = o /\ pc = "done"

RECURSIVE Pow256(_)
Pow256(n) == IF n = 0 THEN 1 ELSE 256 * Pow256(n - 1)

\* 256^e modulo m; m = 0 stands for no modulus
RECURSIVE Weight(_, _)
Weight(e, m) ==
    IF e = 0 THEN (IF m = 0 THEN 1 ELSE 1 % m)
    ELSE IF m = 0 THEN 256 * Weight(e - 1, m) ELSE (256 * Weight(e - 1, m)) % m

\* the sum over k of bs[k] * 256^(Len(bs) - k), modulo m (m = 0: exact)
RECURSIVE PositionalFrom(_, _, _)
PositionalFrom(bs, k, m) ==
    IF k > Len(bs) THEN 0
    ELSE LET rest == bs[k] * Weight(Len(bs) - k, m) + PositionalFrom(bs, k + 1, m)
         IN IF m = 0 THEN rest ELSE rest % m

Positional(bs, m) == PositionalFrom(bs, 1, m)

Modulus(t) == IF t = bigint THEN 0 ELSE Pow2(t)

\* the last n elements of a sequence (all of it when it is shorter)
LastN(q, n) == SubSeq(q, Max(1, Len(q) - n + 1), Len(q))

\* the smallest n with v < 256^n
LeastBytes(v) == CHOOSE n \in 0..(MaxBytes + 1) : v < Pow256(n) /\ (n = 0 \/ v >= Pow256(n - 1))

\* what the rule answers on a window of the sequence as the caller gave it
Answer(k) == Apply(_f, Window(hist.vector0, k, N))

\* concatenation of the per-element results, in index order
RECURSIVE RefElements(_, _)
RefElements(vec, f) ==
    IF vec = <<>> THEN <<>>
    ELSE (IF Apply(f, <<Head(vec)>>).some
          THEN Apply(f, <<Head(vec)>>).value
          ELSE <<Head(vec)>>) \o RefElements(Tail(vec), f)

\* the greedy left-to-right reference scan from index k
RECURSIVE RefWindows(_, _, _, _)
RefWindows(vec, f, n, k) ==
    IF k + n <= Len(vec)
    THEN IF Apply(f, Window(vec, k, n)).some
         THEN Apply(f, Window(vec, k, n)).value \o RefWindows(vec, f, n, k + n)
         ELSE <<vec[k + 1]>> \o RefWindows(vec, f, n, k + 1)
    ELSE SubSeq(vec, k + 1, Len(vec))

NoneFired == \A j \in 1..Len(calls) : ~calls[j].fired

---------------------------------------------------------------------------
(* Properties *)

\* C1: after iterateReplacing the sequence is the concatenation, in the
\* original index order, of the rule's replacement for every element the rule
\* fired on and of the element itself where the rule answered "no change".
C1_Concatenation ==
    Done("iterateReplacing") => _vector = RefElements(hist.vector0, _f)

\* a finished call in which a replacement of two elements was followed by an
\* element the rule left alone
C1_Witness ==
    /\ Done("iterateReplacing")
    /\ \E j \in 1..Len(calls), k \in 1..Len(calls) :
          /\ j < k
          /\ calls[j].fired /\ Len(Apply(_f, calls[j].args).value) = 2
          /\ ~calls[k].fired

\* C2: after iterateReplacingWindow<N> the sequence is the output of the
\* greedy left-to-right reference scan: a firing window is replaced and the
\* scan continues N further, otherwise one element is kept and the scan
\* continues one further, and the tail shorter than N is kept.
C2_GreedyScan ==
    Done("iterateReplacingWindow") => _vector = RefWindows(hist.vector0, _f, N, 0)

\* a finished call with N = 2 on five elements a, b, c, d, e where the rule
\* fired at position 1 only, with a single element m, leaving a, m, d, e
C2_Witness ==
    /\ Done("iterateReplacingWindow") /\ N = 2
    /\ Len(hist.vector0) = 5
    /\ Len(calls) = 3
    /\ ~calls[1].fired /\ calls[2].fired /\ ~calls[3].fired
    /\ calls[2].pos = 1 /\ calls[3].pos = 3
    /\ Len(_vector) = 4
    /\ hist.assigned = 1

\* C3: iterateReplacingWindow<N> invokes the rule in strictly ascending
\* order of start position, first at 0, after a non-match at p next at p + 1,
\* after a match at p next at p + N, always on a complete window of the
\* sequence as given, never on a window that shares an element with a window
\* consumed earlier, and it stops only when no complete window is left: the
\* positions visited are exactly those with a complete window that do not
\* lie inside a window consumed by an earlier match.
C3_WindowsVisited ==
    op = "iterateReplacingWindow" =>
        /\ \A j \in 1..Len(calls) :
              /\ calls[j].pos + N <= Len(hist.vector0)
              /\ calls[j].args = Window(hist.vector0, calls[j].pos, N)
              /\ calls[j].pos =
                    IF j = 1 THEN 0
                    ELSE calls[j - 1].pos + (IF calls[j - 1].fired THEN N ELSE 1)
        /\ \A j \in 1..Len(calls), k \in 1..Len(calls) :
              j < k => /\ calls[j].pos < calls[k].pos
                       /\ calls[j].fired => calls[k].pos >= calls[j].pos + N
        /\ pc = "done" =>
              LET next == IF calls = <<>> THEN 0
                          ELSE calls[Len(calls)].pos
                               + (IF calls[Len(calls)].fired THEN N ELSE 1)
              IN /\ next + N > Len(hist.vector0)
                 /\ {calls[j].pos : j \in 1..Len(calls)} =
                       {p \in 0..(Len(hist.vector0) - N) :
                           ~\E q \in 0..(p - 1) :
                               /\ q + N > p
                               /\ \E j \in 1..Len(calls) :
                                     calls[j].pos = q /\ calls[j].fired}

\* a finished call with N = 2 that made a call after a match and a call after
\* a non-match
C3_Witness ==
    /\ Done("iterateReplacingWindow") /\ N = 2
    /\ \E j \in 1..Len(calls), k \in 1..Len(calls) :
          /\ j + 1 <= Len(calls) /\ k + 1 <= Len(calls)
          /\ calls[j].fired /\ ~calls[k].fired

\* C4: as long as the rule has answered "no change" on every invocation
\* (also when it was never invoked), the caller's sequence is as given, no
\* element was moved, nothing was appended to the staging buffer and the
\* sequence was not assigned.
C4_NoOpWhenNoneFired ==
    (op \in {"iterateReplacing", "iterateReplacingWindow"} /\ NoneFired) =>
        /\ _vector = hist.vector0
        /\ modifiedVector = <<>>
        /\ ~useModified
        /\ hist.staged = 0
        /\ hist.assigned = 0
        /\ \A j \in 1..Len(hist.moved) : hist.moved[j] = 0

\* a finished windowed call in which the rule was invoked at least twice and
\* never fired
C4_Witness ==
    /\ Done("iterateReplacingWindow")
    /\ Len(calls) >= 2
    /\ NoneFired

\* C5: decoding the compact encoding of a value gives the value back
\* (whatever the minimal length), and the compact encoding of 0 with no
\* minimal length is the empty byte sequence.
C5_RoundTrip ==
    Done("toCompactBigEndian") =>
        /\ fromBigEndian(T, ret) = _val
        /\ (_val = 0 /\ _min = 0) => ret = <<>>

\* a value of two bytes was encoded with no minimal length
C5_Witness ==
    /\ Done("toCompactBigEndian")
    /\ _val >= 256 /\ _min = 0

\* C6: bytesRequired is 0 exactly for 0; the compact encoding has length
\* max(_min, bytesRequired); it starts with a non-zero byte when the value is
\* positive and needs no padding; otherwise the padding bytes are zero and
\* the minimal encoding follows them.
C6_Minimality ==
    /\ Done("bytesRequired") =>
          /\ ret = 0 <=> _val = 0
          /\ ret = LeastBytes(_val)
    /\ Done("toCompactBigEndian") =>
          LET n == bytesRequired(T, _val)
          IN /\ Len(ret) = Max(_min, n)
             /\ (_val > 0 /\ _min <= n) => ret[1] # 0
             /\ _min > n =>
                   /\ \A k \in 1..(_min - n) : ret[k] = 0
                   /\ SubSeq(ret, _min - n + 1, _min) = toCompactBigEndian(T, _val, 0)

\* a positive value was encoded with a minimal length that asks for padding
C6_Witness ==
    /\ Done("toCompactBigEndian")
    /\ _val > 0
    /\ _min > bytesRequired(T, _val)

\* C7: toBigEndian keeps the buffer's length L and leaves
\* (v >> 8*(L-1-k)) & 0xff at every (0-based) index k; a buffer shorter than
\* the value decodes to v mod 256^L, in a longer one the leading elements
\* are zero.
C7_FixedLength ==
    Done("toBigEndian") =>
        LET L == Len(o_out)
            n == bytesRequired(T, _val)
        IN /\ L = Len(hist.out0)
           /\ \A k \in 1..L : o_out[k] = (_val \div Pow256(L - k)) % 256
           /\ L < n => fromBigEndian(bigint, o_out) = _val % Pow256(L)
           /\ L > n => \A k \in 1..(L - n) : o_out[k] = 0

\* a value was written into a non-empty buffer too short for it
C7_Witness ==
    /\ Done("toBigEndian")
    /\ Len(o_out) >= 1
    /\ Len(o_out) < bytesRequired(T, _val)

\* C8 as stated: in a buffer longer than the value requires, the leading
\* bytes are as the caller supplied them and the value occupies the tail.
C8_LeadingBytesKept ==
    Done("toBigEndian") =>
        LET L == Len(o_out)
            n == bytesRequired(T, _val)
        IN L > n =>
              /\ \A k \in 1..(L - n) : o_out[k] = hist.out0[k]
              /\ SubSeq(o_out, L - n + 1, L) = toCompactBigEndian(T, _val, 0)

\* C8 as amended: in a buffer longer than the value requires, the leading
\* bytes are overwritten with zero, whatever the caller supplied, and the
\* value occupies the tail.
C8_LeadingBytesZeroed ==
    Done("toBigEndian") =>
        LET L == Len(o_out)
            n == bytesRequired(T, _val)
        IN L > n =>
              /\ \A k \in 1..(L - n) : o_out[k] = 0
              /\ SubSeq(o_out, L - n + 1, L) = toCompactBigEndian(T, _val, 0)

\* a positive value was written into a longer buffer whose first byte the
\* caller had set to a non-zero value
C8_Witness ==
    /\ Done("toBigEndian")
    /\ _val > 0
    /\ Len(o_out) > bytesRequired(T, _val)
    /\ hist.out0[1] # 0

\* C9: fromBigEndian yields the base-256 value of the byte sequence, most
\* significant byte first: exactly for bigint, modulo 2^w for a type of w
\* bits, where it is the value of the last w/8 bytes alone; the empty
\* sequence yields 0.
C9_Decode ==
    Done("fromBigEndian") =>
        /\ ret = Positional(_bytes, Modulus(T))
        /\ T # bigint => ret = Positional(LastN(_bytes, T \div 8), 0)
        /\ _bytes = <<>> => ret = 0

\* a sequence longer than the 8-bit target, with a non-zero byte in front,
\* was decoded
C9_Witness ==
    /\ Done("fromBigEndian")
    /\ T = 8
    /\ Len(_bytes) >= 2
    /\ _bytes[1] # 0

\* C10: iterateReplacing invokes the rule once per loop iteration, the j-th
\* invocation on the j-th element of the sequence as given; when the call
\* has finished every element has been handed to the rule exactly once.
C10_EachElementOnce ==
    op = "iterateReplacing" =>
        /\ Len(calls) = i
        /\ \A j \in 1..Len(calls) :
              /\ calls[j].pos = j - 1
              /\ calls[j].args = <<hist.vector0[j]>>
        /\ pc = "done" => Len(calls) = Len(hist.vector0)

\* a finished call on three or more elements whose first invocation fired
\* with a replacement of two elements
C10_Witness ==
    /\ Done("iterateReplacing")
    /\ Len(calls) >= 3
    /\ calls[1].fired /\ Len(Apply(_f, calls[1].args).value) = 2

Rewriting == op \in {"iterateReplacing", "iterateReplacingWindow"}

\* C11: both rewriters return on every sequence and rule: every loop
\* iteration (a step that stays in its loop) strictly increases the scan
\* index, iterateReplacing invokes the rule exactly once per element of the
\* sequence as given, iterateReplacingWindow<N> at most max(0, length - N + 1)
\* times, and every invocation is on elements of the sequence as given, never
\* on elements of a replacement.
C11_Termination ==
    /\ <>(pc = "done")
    /\ [][(Rewriting /\ pc' = pc) => i' > i]_vars
    /\ [](Done("iterateReplacing") => Len(calls) = Len(hist.vector0))
    /\ [](op = "iterateReplacingWindow" =>
             Len(calls) <= Max(0, Len(hist.vector0) - N + 1))
    /\ [](Rewriting =>
             \A j \in 1..Len(calls) :
                 calls[j].args = Window(hist.vector0, calls[j].pos, Len(calls[j].args)))

\* a windowed call with N = 1 returned after the rule had fired twice with a
\* replacement longer than the window it consumed
C11_Witness ==
    /\ Done("iterateReplacingWindow") /\ N = 1
    /\ \E j \in 1..Len(calls), k \in 1..Len(calls) :
          /\ j < k
          /\ calls[j].fired /\ Len(Apply(_f, calls[j].args).value) = 2
          /\ calls[k].fired /\ Len(Apply(_f, calls[k].args).value) = 2

\* C12: every original element has been moved into the staging buffer at
\* most once, only elements at indices strictly below the scan position have
\* been moved out of the sequence, and every element the rule was handed was
\* still in place (not moved-from) when the rule saw it.
C12_MoveOnce ==
    Rewriting =>
        /\ \A j \in 1..Len(hist.moved) :
              /\ hist.moved[j] <= 1
              /\ hist.moved[j] > 0 => j <= i
        /\ pc # "done" =>
              \A j \in 1..Len(_vector) :
                  /\ _vector[j] = Hollow <=> hist.moved[j] > 0
                  /\ j > i => _vector[j] = hist.vector0[j]
        /\ \A j \in 1..Len(calls) :
              \A k \in 1..Len(calls[j].args) : calls[j].args[k] # Hollow

\* a windowed call with N = 2 is in copy mode, has moved elements out of the
\* sequence and has then handed the rule a further window
C12_Witness ==
    /\ op = "iterateReplacingWindow" /\ N = 2 /\ pc = "loop"
    /\ useModified
    /\ \E j \in 1..Len(hist.moved) : hist.moved[j] = 1
    /\ Len(calls) >= 3
    /\ calls[1].fired /\ ~calls[2].fired

\* C13: run side by side on the same sequence with the same rule,
\* iterateReplacingWindow<1> and iterateReplacing make the same invocations
\* of the rule in the same order; after the same number of loop iterations
\* they are at the same index, both or neither in copy mode, with equal
\* staging buffers and equal sequences; and they return with equal
\* sequences, having made the same moves and assignments.
C13_WindowOneIsElements ==
    (side.pc # "idle" /\ side.N = 1) =>
        /\ \A j \in 1..Min(Len(calls), Len(side.calls)) : calls[j] = side.calls[j]
        /\ (pc = "loop" /\ side.pc = "loop" /\ Len(calls) = Len(side.calls)) =>
              /\ i = side.i
              /\ useModified = side.useModified
              /\ modifiedVector = side.modifiedVector
              /\ _vector = side.vector
        /\ (pc = "done" /\ side.pc = "done") =>
              /\ _vector = side.vector
              /\ calls = side.calls
              /\ useModified = side.useModified
              /\ hist = side.hist

\* both calls have returned, N = 1, after entering copy mode on the second
\* element and moving a later element that the rule left alone
C13_Witness ==
    /\ pc = "done" /\ side.pc = "done" /\ side.N = 1
    /\ Len(calls) >= 3
    /\ ~calls[1].fired /\ calls[2].fired /\ ~calls[3].fired

====
